---- MODULE Spec2Model ----
(***************************************************************************)
(* A model of the stream utilities of rrg (src/src/io.rs):                 *)
(*                                                                         *)
(*   copy_until   copies a reader into a writer through a fixed buffer     *)
(*                until a predicate holds or the reader is exhausted;      *)
(*   IterReader   presents an iterator of byte chunks as one reader.       *)
(*                                                                         *)
(* copy_until is modelled step by step: one action per call it makes into  *)
(* its environment (the predicate, reader.read, writer.write_all), because *)
(* the properties of interest are about the order of those calls.          *)
(* IterReader::read is modelled as one action per call of read.            *)
(*                                                                         *)
(* patch_buffer of the build script (src/proto/build.rs) is modelled as    *)
(* well: one action for reading the input, one per iteration of its loop   *)
(* over the lines, one for its return.  Its texts are sequences of         *)
(* characters.                                                             *)
(*                                                                         *)
(* Bytes are natural numbers.  Neither function inspects the bytes it      *)
(* moves, so the bytes of a finite stream are tagged with their position   *)
(* in it (1, 2, 3, ...): any loss, duplication or reordering changes the   *)
(* resulting sequence.                                                     *)
(***************************************************************************)
EXTENDS Naturals, Sequences, FiniteSets

\* ------------------------------------------------------------------ bounds

\* The size of the copy buffer.  The program uses 8 * 1024 (io.rs:15); the
\* model scales it down, and every property below is stated relative to it.
DEFAULT_BUF_SIZE == 3
\* Longest finite input held by the reader of copy_until.
MaxLen == 5
\* Largest threshold L of the predicate "writer.len() > L".
MaxLimit == 4
\* Longest run of consecutive `Interrupted` results a reader reports.
MaxIntr == 2
\* Number of chunks an iterator yields, at most.
MaxChunks == 3
\* Length of a chunk, at most.
MaxChunkLen == 2
\* Largest capacity of a caller's buffer handed to IterReader::read.
MaxCap == 2

\* Number of lines of an input of patch_buffer, at most.
MaxLines == 2

\* Calls of IterReader::read in one behaviour: enough to drain every
\* iterator byte by byte and to read past the end of the stream twice.
MaxReads == MaxChunks * MaxChunkLen + 2

\* ----------------------------------------------------------------- helpers

Min(a, b) == IF a <= b THEN a ELSE b

Take(s, n) == SubSeq(s, 1, Min(n, Len(s)))

Drop(s, n) == SubSeq(s, Min(n, Len(s)) + 1, Len(s))

\* The bytes k+1 .. k+n, as a sequence.
Stream(k, n) == [i \in 1..n |-> k + i]

RECURSIVE Flatten(_)
Flatten(ss) == IF ss = <<>> THEN <<>> ELSE Head(ss) \o Flatten(Tail(ss))

RECURSIVE SumLen(_)
SumLen(ss) == IF ss = <<>> THEN 0 ELSE Len(Head(ss)) + SumLen(Tail(ss))

\* std::io::Result values.  An error carries its kind and the operation it
\* came from, which is what makes it "the same error" when propagated.
Running == [tag |-> "Running", kind |-> "-", by |-> "-"]
Ok == [tag |-> "Ok", kind |-> "-", by |-> "-"]
Err(kind, by) == [tag |-> "Err", kind |-> kind, by |-> by]

\* std::io::ErrorKind, as far as the code tells the kinds apart.
ErrorKinds == {"Interrupted", "BrokenPipe", "Other"}

VARIABLES
    \* --- copy_until: the environment the call runs in
    infinite,   \* TRUE: the reader never reports the end of the stream
    input,      \* the bytes a finite reader holds
    srcMode,    \* "clean": reads never fail; "intr": reads may report
                \* Interrupted; "faulty": reads may fail with any kind
    sinkFaulty, \* TRUE: write_all may fail
    predKind,   \* the predicate: "false", "true", "lenGt", "any"
    limit,      \* the threshold L of the predicate "lenGt"
    \* --- copy_until: the state of the call
    pc,         \* "pred", "read", "write", "done"
    pos,        \* bytes the reader has delivered so far
    intrRun,    \* length of the current run of Interrupted results
    buf,        \* the buffer of DEFAULT_BUF_SIZE bytes
    len,        \* the length the last read returned
    writer,     \* the bytes the writer holds
    result,     \* Running, or the value copy_until returned
    \* --- copy_until: history
    nPred,      \* predicate evaluations so far
    nRead,      \* reader.read calls so far
    nWrite,     \* writer.write_all calls so far
    lastPred,   \* "none", or the value of the last predicate evaluation
    lastRead,   \* NoRead, or the result of the last reader.read
    lastWrite,  \* NoWrite, or the result of the last writer.write_all
    lastOp,     \* "none", or the last call made: "pred", "read", "write"
    ref,        \* the call that is given the same results, the interrupted
                \* reads left out: its pc, pos, buf, len, writer and result
    \* --- IterReader
    items,      \* the chunks the iterator yields, in order
    iterPos,    \* the number of chunks the iterator has yielded
    curr,       \* Option<&[u8]>: <<>> is None, <<s>> is Some(s)
    \* --- IterReader: history
    out,        \* the bytes returned by the reads so far, concatenated
    last,       \* the last read: its capacity and the bytes it returned
    nReads,     \* read calls so far
    caps,       \* the capacities of the buffers handed to read so far
    eof,        \* TRUE: a read with a non-empty buffer has returned 0
    \* --- patch_buffer
    psrc,       \* the input, as its lines and the terminator of each
    pfaulty,    \* "none", or the call that may fail: "read", "write"
    ppc,        \* "read", "loop", "done"
    plines,     \* buffer.lines(), once the input has been read
    pidx,       \* the number of lines the loop has dealt with
    poutput,    \* the characters written to output
    presult     \* Running, or the value patch_buffer returned

copyVars == <<infinite, input, srcMode, sinkFaulty, predKind, limit, pc, pos,
              intrRun, buf, len, writer, result, nPred, nRead, nWrite,
              lastPred, lastRead, lastWrite, lastOp, ref>>
readerVars == <<items, iterPos, curr, out, last, nReads, caps, eof>>
patchVars == <<psrc, pfaulty, ppc, plines, pidx, poutput, presult>>
vars == <<copyVars, readerVars, patchVars>>

\* patch_buffer is not running.
PatchIdle ==
    /\ psrc = <<>>
    /\ pfaulty = "none"
    /\ ppc = "done"
    /\ plines = <<>>
    /\ pidx = 0
    /\ poutput = <<>>
    /\ presult = Running

\* ============================================================ copy_until

\* The values one evaluation of the predicate may return, given the writer.
\* "lenGt" is |_, writer| writer.len() > limit of the tests; "any" is an
\* arbitrary FnMut predicate.
PredValues(kind, l, w) ==
    CASE kind = "false" -> {FALSE}
      [] kind = "true"  -> {TRUE}
      [] kind = "lenGt" -> {Len(w) > l}
      [] OTHER          -> BOOLEAN

\* A variant of AfterPred that ignores the predicate and never breaks.
AfterPred_Ignored(p) == [pc |-> "read", result |-> Running]

\* A variant of AfterPred that tests the negated predicate.
AfterPred_Negated(p) ==
    IF ~p THEN [pc |-> "done", result |-> Ok]
          ELSE [pc |-> "read", result |-> Running]

\* if pred(reader, writer) { break; }  and, after the loop, Ok(())
AfterPred(p) ==
    IF p THEN [pc |-> "done", result |-> Ok]
         ELSE [pc |-> "read", result |-> Running]

\* The results reader.read(&mut buf[..]) may give: Ok(n) with the n bytes it
\* delivers, or an error.  A finite reader delivers between 1 byte and a
\* buffer full while bytes remain and Ok(0) afterwards; an infinite reader
\* (std::io::repeat(0x42) in the tests) always delivers at least one byte.
ReadResults ==
    LET room == IF infinite THEN DEFAULT_BUF_SIZE
                ELSE Min(DEFAULT_BUF_SIZE, Len(input) - pos)
        oks == IF room = 0
               THEN {[tag |-> "Ok", n |-> 0, data |-> <<>>, kind |-> "-", by |-> "-"]}
               ELSE {[tag |-> "Ok", n |-> n,
                      data |-> IF infinite THEN [i \in 1..n |-> 66]
                               ELSE SubSeq(input, pos + 1, pos + n),
                      kind |-> "-", by |-> "-"] : n \in 1..room}
        intr == IF srcMode \in {"intr", "faulty"} /\ intrRun < MaxIntr
                THEN {[tag |-> "Err", n |-> 0, data |-> <<>>,
                       kind |-> "Interrupted", by |-> "read"]}
                ELSE {}
        errs == IF srcMode = "faulty"
                THEN {[tag |-> "Err", n |-> 0, data |-> <<>>, kind |-> k, by |-> "read"] :
                        k \in ErrorKinds \ {"Interrupted"}}
                ELSE {}
    IN  oks \cup intr \cup errs

\* A variant of MatchRead without the arm for Interrupted: every error is
\* returned.
MatchRead_NoRetry(r) ==
    CASE r.tag = "Ok" /\ r.n = 0 ->
            [pc |-> "done", result |-> Ok, len |-> len]
      [] r.tag = "Ok" /\ r.n > 0 ->
            [pc |-> "write", result |-> Running, len |-> r.n]
      [] OTHER ->
            [pc |-> "done", result |-> Err(r.kind, r.by), len |-> len]

\* A variant of MatchRead that takes an interrupted read for the end of the
\* stream.
MatchRead_InterruptedEnds(r) ==
    CASE r.tag = "Ok" /\ r.n > 0 ->
            [pc |-> "write", result |-> Running, len |-> r.n]
      [] r.tag = "Err" /\ r.kind # "Interrupted" ->
            [pc |-> "done", result |-> Err(r.kind, r.by), len |-> len]
      [] OTHER ->
            [pc |-> "done", result |-> Ok, len |-> len]

\* A variant of MatchRead that retries after every error.
MatchRead_RetryAll(r) ==
    CASE r.tag = "Ok" /\ r.n = 0 ->
            [pc |-> "done", result |-> Ok, len |-> len]
      [] r.tag = "Ok" /\ r.n > 0 ->
            [pc |-> "write", result |-> Running, len |-> r.n]
      [] OTHER ->
            [pc |-> "pred", result |-> Running, len |-> len]

\* A variant of MatchRead that retries an interrupted read at once, without
\* going through the predicate.
MatchRead_RetryRead(r) ==
    CASE r.tag = "Ok" /\ r.n = 0 ->
            [pc |-> "done", result |-> Ok, len |-> len]
      [] r.tag = "Ok" /\ r.n > 0 ->
            [pc |-> "write", result |-> Running, len |-> r.n]
      [] r.tag = "Err" /\ r.kind = "Interrupted" ->
            [pc |-> "read", result |-> Running, len |-> len]
      [] OTHER ->
            [pc |-> "done", result |-> Err(r.kind, r.by), len |-> len]

\* let len = match reader.read(&mut buf[..]) { ... };
MatchRead(r) ==
    CASE r.tag = "Ok" /\ r.n = 0 ->
            [pc |-> "done", result |-> Ok, len |-> len]
      [] r.tag = "Ok" /\ r.n > 0 ->
            [pc |-> "write", result |-> Running, len |-> r.n]
      [] r.tag = "Err" /\ r.kind = "Interrupted" ->
            [pc |-> "pred", result |-> Running, len |-> len]
      [] OTHER ->
            [pc |-> "done", result |-> Err(r.kind, r.by), len |-> len]

\* A variant of WriteSlice that writes the whole buffer: &buf[..]
WriteSlice_Whole(b, n) == b

\* &buf[..len]
WriteSlice(b, n) == Take(b, n)

\* The results writer.write_all(data) may give.  On success the writer has
\* taken all of data; on failure it has taken some proper prefix of it.
WriteResults(data) ==
    {[tag |-> "Ok", kind |-> "-", by |-> "-", taken |-> Len(data)]}
    \cup (IF sinkFaulty
          THEN {[tag |-> "Err", kind |-> k, by |-> "write", taken |-> t] :
                    k \in ErrorKinds, t \in 0..(Len(data) - 1)}
          ELSE {})

\* A variant of AfterWrite that leaves the loop after the first round.
AfterWrite_Break(w) ==
    IF w.tag = "Ok" THEN [pc |-> "done", result |-> Ok]
                    ELSE [pc |-> "done", result |-> Err(w.kind, w.by)]

\* A variant of AfterWrite that goes on to the next read without asking the
\* predicate.
AfterWrite_SkipPred(w) ==
    IF w.tag = "Ok" THEN [pc |-> "read", result |-> Running]
                    ELSE [pc |-> "done", result |-> Err(w.kind, w.by)]

\* A variant of AfterWrite that retries an interrupted write, as the read is.
AfterWrite_RetryInterrupted(w) ==
    CASE w.tag = "Ok" -> [pc |-> "pred", result |-> Running]
      [] w.tag = "Err" /\ w.kind = "Interrupted" -> [pc |-> "write", result |-> Running]
      [] OTHER -> [pc |-> "done", result |-> Err(w.kind, w.by)]

\* writer.write_all(&buf[..len])?;
AfterWrite(w) ==
    IF w.tag = "Ok" THEN [pc |-> "pred", result |-> Running]
                    ELSE [pc |-> "done", result |-> Err(w.kind, w.by)]

\* --- the call without the interrupted reads

\* An interrupted read has sent the call back to the predicate.
Detour == pc = "pred" /\ lastOp = "read"

\* io.rs:54 in the call without interruptions, when the call gets p: a
\* predicate of the sink's content is evaluated on that call's sink, any
\* other predicate answers as it answers the call.
RefPred(p) ==
    IF predKind = "any" THEN p
    ELSE CHOOSE q \in PredValues(predKind, limit, ref.writer) : TRUE

\* io.rs:54-56 in the call without interruptions.
RefAfterPred(p) ==
    [ref EXCEPT !.pc = AfterPred(RefPred(p)).pc,
                !.result = AfterPred(RefPred(p)).result]

\* io.rs:59-64 in the call without interruptions: the read gives the result
\* r with the bytes data.
RefAfterRead(r, data) ==
    [ref EXCEPT !.pc = MatchRead(r).pc,
                !.result = MatchRead(r).result,
                !.len = IF r.tag = "Ok" /\ r.n > 0 THEN r.n ELSE @,
                !.pos = @ + r.n,
                !.buf = data \o Drop(@, Len(data))]

\* io.rs:66 in the call without interruptions: the write gives the result w.
RefAfterWrite(w) ==
    [ref EXCEPT !.writer = @ \o Take(WriteSlice(ref.buf, ref.len), w.taken),
                !.pc = AfterWrite(w).pc,
                !.result = AfterWrite(w).result]

\* No read has happened yet.
NoRead == [tag |-> "None", n |-> 0, kind |-> "-", by |-> "-"]

\* No write has happened yet.
NoWrite == [tag |-> "None", kind |-> "-", by |-> "-", taken |-> 0]

ReaderIdle ==
    /\ items = <<>>
    /\ iterPos = 0
    /\ curr = <<>>
    /\ out = <<>>
    /\ last = [cap |-> 0, data |-> <<>>]
    /\ nReads = 0
    /\ caps = {}
    /\ eof = FALSE

\* The state on entry to copy_until, for every environment of the model.
\* An infinite reader is paired with the predicates that stop the copy.
Init ==
    /\ infinite \in BOOLEAN
    /\ input \in IF infinite THEN {<<>>} ELSE {Stream(0, n) : n \in 0..MaxLen}
    /\ srcMode \in {"clean", "intr", "faulty"}
    /\ sinkFaulty \in BOOLEAN
    /\ predKind \in IF infinite THEN {"true", "lenGt"}
                    ELSE {"false", "true", "lenGt", "any"}
    /\ limit \in IF predKind = "lenGt" THEN 0..MaxLimit ELSE {0}
    /\ pc = "pred"
    /\ pos = 0
    /\ intrRun = 0
    /\ buf = [i \in 1..DEFAULT_BUF_SIZE |-> 0]
    /\ len = 0
    /\ writer = <<>>
    /\ result = Running
    /\ nPred = 0
    /\ nRead = 0
    /\ nWrite = 0
    /\ lastPred = "none"
    /\ lastRead = NoRead
    /\ lastWrite = NoWrite
    /\ lastOp = "none"
    /\ ref = [pc |-> pc, pos |-> pos, buf |-> buf, len |-> len,
              writer |-> writer, result |-> result]
    /\ ReaderIdle
    /\ PatchIdle

env == <<infinite, input, srcMode, sinkFaulty, predKind, limit>>

\* io.rs:54-56
EvalPred ==
    /\ pc = "pred"
    /\ \E p \in PredValues(predKind, limit, writer) :
          /\ pc' = AfterPred(p).pc
          /\ result' = AfterPred(p).result
          /\ lastPred' = IF p THEN "true" ELSE "false"
          /\ ref' = IF Detour THEN ref ELSE RefAfterPred(p)
    /\ nPred' = nPred + 1
    /\ lastOp' = "pred"
    /\ UNCHANGED <<env, pos, intrRun, buf, len, writer, nRead, nWrite, lastRead,
                   lastWrite>>
    /\ UNCHANGED readerVars
    /\ UNCHANGED patchVars

\* io.rs:59-64
ReadSource ==
    /\ pc = "read"
    /\ \E r \in ReadResults :
          /\ pc' = MatchRead(r).pc
          /\ result' = MatchRead(r).result
          /\ len' = MatchRead(r).len
          /\ pos' = pos + r.n
          /\ buf' = r.data \o Drop(buf, r.n)
          /\ intrRun' = IF r.tag = "Err" /\ r.kind = "Interrupted"
                        THEN intrRun + 1 ELSE 0
          /\ lastRead' = [tag |-> r.tag, n |-> r.n, kind |-> r.kind, by |-> r.by]
          /\ ref' = IF r.tag = "Err" /\ r.kind = "Interrupted" THEN ref
                    ELSE RefAfterRead(r, IF infinite THEN r.data
                                         ELSE Take(Drop(input, ref.pos), r.n))
    /\ nRead' = nRead + 1
    /\ lastOp' = "read"
    /\ UNCHANGED <<env, writer, nPred, nWrite, lastPred, lastWrite>>
    /\ UNCHANGED readerVars
    /\ UNCHANGED patchVars

\* io.rs:66
WriteSink ==
    /\ pc = "write"
    /\ \E w \in WriteResults(WriteSlice(buf, len)) :
          /\ writer' = writer \o Take(WriteSlice(buf, len), w.taken)
          /\ pc' = AfterWrite(w).pc
          /\ result' = AfterWrite(w).result
          /\ lastWrite' = w
          /\ ref' = RefAfterWrite(w)
    /\ nWrite' = nWrite + 1
    /\ lastOp' = "write"
    /\ UNCHANGED <<env, pos, intrRun, buf, len, nPred, nRead, lastPred, lastRead>>
    /\ UNCHANGED readerVars
    /\ UNCHANGED patchVars

Next == EvalPred \/ ReadSource \/ WriteSink

Spec == Init /\ [][Next]_vars

\* copy_until runs on one thread that is never suspended for ever: while a
\* step is possible, a step is taken.
FairSpec == Spec /\ WF_vars(Next)

\* ============================================================ IterReader

\* A variant of SliceRead that copies the bytes but does not advance the
\* slice past them.
SliceRead_NoAdvance(slice, cap) ==
    [n    |-> Min(Len(slice), cap),
     data |-> Take(slice, cap),
     rest |-> slice]

\* <&[u8] as Read>::read, called as curr.read(buf): copies as many bytes as
\* the slice holds and the buffer takes, and advances the slice past them.
SliceRead(slice, cap) ==
    [n    |-> Min(Len(slice), cap),
     data |-> Take(slice, cap),
     rest |-> Drop(slice, cap)]

\* A variant of PullNext that asks the iterator for a chunk on every
\* iteration, whether or not a chunk is current.
PullNext_Always(its, ipos, cur) ==
    IF ipos < Len(its) THEN <<ipos + 1, <<its[ipos + 1]>>>>
    ELSE <<ipos, <<>>>>

\* if self.curr.is_none() { self.curr = self.iter.next(); }
\* gives the new <<iterator position, curr>>.
PullNext(its, ipos, cur) ==
    IF cur # <<>> THEN <<ipos, cur>>
    ELSE IF ipos < Len(its) THEN <<ipos + 1, <<its[ipos + 1]>>>>
    ELSE <<ipos, <<>>>>

\* A variant of IterRead without the loop: a chunk that gives no byte ends
\* the call with Ok(0).
IterRead_NoLoop(its, ipos, cur, cap) ==
    LET pulled == PullNext(its, ipos, cur)
        ipos1 == pulled[1]
        cur1 == pulled[2]
    IN  IF cur1 = <<>>
        THEN [n |-> 0, data |-> <<>>, iterPos |-> ipos1, curr |-> <<>>]
        ELSE LET r == SliceRead(cur1[1], cap)
             IN  [n |-> r.n, data |-> r.data, iterPos |-> ipos1,
                  curr |-> IF r.n = 0 THEN <<>> ELSE <<r.rest>>]

\* A variant of IterRead that goes on copying from the next chunks while the
\* buffer has room.
RECURSIVE IterRead_Stitch(_, _, _, _)
IterRead_Stitch(its, ipos, cur, cap) ==
    LET pulled == PullNext(its, ipos, cur)
        ipos1 == pulled[1]
        cur1 == pulled[2]
    IN  IF cur1 = <<>>
        THEN [n |-> 0, data |-> <<>>, iterPos |-> ipos1, curr |-> <<>>]
        ELSE LET r == SliceRead(cur1[1], cap)
             IN  IF r.n = 0
                 THEN IterRead_Stitch(its, ipos1, <<>>, cap)
                 ELSE IF r.n < cap /\ ipos1 < Len(its)
                 THEN LET more == IterRead_Stitch(its, ipos1, <<>>, cap - r.n)
                      IN  [n |-> r.n + more.n, data |-> r.data \o more.data,
                           iterPos |-> more.iterPos, curr |-> more.curr]
                 ELSE [n |-> r.n, data |-> r.data, iterPos |-> ipos1,
                       curr |-> <<r.rest>>]

\* A variant of IterRead that asks the iterator for the next chunk as soon
\* as the current one has been read to its end.
RECURSIVE IterRead_Prefetch(_, _, _, _)
IterRead_Prefetch(its, ipos, cur, cap) ==
    LET pulled == PullNext(its, ipos, cur)
        ipos1 == pulled[1]
        cur1 == pulled[2]
    IN  IF cur1 = <<>>
        THEN [n |-> 0, data |-> <<>>, iterPos |-> ipos1, curr |-> <<>>]
        ELSE LET r == SliceRead(cur1[1], cap)
             IN  IF r.n = 0
                 THEN IterRead_Prefetch(its, ipos1, <<>>, cap)
                 ELSE IF r.rest = <<>>
                 THEN [n |-> r.n, data |-> r.data,
                       iterPos |-> PullNext(its, ipos1, <<>>)[1],
                       curr |-> PullNext(its, ipos1, <<>>)[2]]
                 ELSE [n |-> r.n, data |-> r.data, iterPos |-> ipos1,
                       curr |-> <<r.rest>>]

\* IterReader::read(&mut self, buf), with buf of capacity cap: the loop of
\* io.rs:94-114, one unfolding per iteration.  Gives the bytes copied into
\* buf and the reader's state on return.
RECURSIVE IterRead(_, _, _, _)
IterRead(its, ipos, cur, cap) ==
    LET pulled == PullNext(its, ipos, cur)
        ipos1 == pulled[1]
        cur1 == pulled[2]
    IN  IF cur1 = <<>>
        THEN [n |-> 0, data |-> <<>>, iterPos |-> ipos1, curr |-> <<>>]
        ELSE LET r == SliceRead(cur1[1], cap)
             IN  IF r.n = 0
                 THEN IterRead(its, ipos1, <<>>, cap)
                 ELSE [n |-> r.n, data |-> r.data, iterPos |-> ipos1,
                       curr |-> <<r.rest>>]

\* Cuts the stream of bytes k+1, k+2, ... into chunks of the given lengths.
RECURSIVE Chunked(_, _)
Chunked(lens, k) ==
    IF lens = <<>> THEN <<>>
    ELSE <<Stream(k, Head(lens))>> \o Chunked(Tail(lens), k + Head(lens))

\* The chunk sequences of the model: every sequence of at most MaxChunks
\* chunks of 0..MaxChunkLen bytes each.
ChunkSeqs ==
    UNION {{Chunked(lens, 0) : lens \in [1..k -> 0..MaxChunkLen]} : k \in 0..MaxChunks}

\* The chunks "fo", "oba", "r".
FooBar == <<<<102, 111>>, <<111, 98, 97>>, <<114>>>>

CopyIdle ==
    /\ infinite = FALSE
    /\ input = <<>>
    /\ srcMode = "clean"
    /\ sinkFaulty = FALSE
    /\ predKind = "false"
    /\ limit = 0
    /\ pc = "done"
    /\ pos = 0
    /\ intrRun = 0
    /\ buf = [i \in 1..DEFAULT_BUF_SIZE |-> 0]
    /\ len = 0
    /\ writer = <<>>
    /\ result = Running
    /\ nPred = 0
    /\ nRead = 0
    /\ nWrite = 0
    /\ lastPred = "none"
    /\ lastRead = NoRead
    /\ lastWrite = NoWrite
    /\ lastOp = "none"
    /\ ref = [pc |-> pc, pos |-> pos, buf |-> buf, len |-> len,
              writer |-> writer, result |-> result]

\* IterReader::new(iter), for every chunk sequence of the model.
InitReader ==
    /\ items \in ChunkSeqs \cup {FooBar}
    /\ iterPos = 0
    /\ curr = <<>>
    /\ out = <<>>
    /\ last = [cap |-> 0, data |-> <<>>]
    /\ nReads = 0
    /\ caps = {}
    /\ eof = FALSE
    /\ CopyIdle
    /\ PatchIdle

\* One call of read with a buffer of capacity cap.
Read(cap) ==
    /\ nReads < MaxReads
    /\ LET r == IterRead(items, iterPos, curr, cap)
       IN  /\ iterPos' = r.iterPos
           /\ curr' = r.curr
           /\ out' = out \o r.data
           /\ last' = [cap |-> cap, data |-> r.data]
           /\ eof' = (eof \/ (cap > 0 /\ r.n = 0))
    /\ nReads' = nReads + 1
    /\ caps' = caps \cup {cap}
    /\ UNCHANGED items
    /\ UNCHANGED copyVars
    /\ UNCHANGED patchVars

NextReader == \E cap \in 0..MaxCap : Read(cap)

SpecReader == InitReader /\ [][NextReader]_vars

\* ============================================ copy_until over an IterReader

\* Chunk sequences with chunks longer than the buffer of copy_until, next to
\* empty and short ones.
LongChunkSeqs ==
    {Chunked(lens, 0) : lens \in [1..3 -> {0, 1, DEFAULT_BUF_SIZE + 1}]}

\* The state on entry to copy_until(&mut IterReader::new(iter), writer, pred)
\* with an empty writer.  input records the bytes of the chunks.
InitCompose ==
    /\ items \in ChunkSeqs \cup LongChunkSeqs \cup {FooBar}
    /\ iterPos = 0
    /\ curr = <<>>
    /\ out = <<>>
    /\ last = [cap |-> 0, data |-> <<>>]
    /\ nReads = 0
    /\ caps = {}
    /\ eof = FALSE
    /\ infinite = FALSE
    /\ input = Flatten(items)
    /\ srcMode = "clean"
    /\ sinkFaulty \in BOOLEAN
    /\ predKind \in {"false", "true", "lenGt", "any"}
    /\ limit \in IF predKind = "lenGt" THEN 0..MaxLimit ELSE {0}
    /\ pc = "pred"
    /\ pos = 0
    /\ intrRun = 0
    /\ buf = [i \in 1..DEFAULT_BUF_SIZE |-> 0]
    /\ len = 0
    /\ writer = <<>>
    /\ result = Running
    /\ nPred = 0
    /\ nRead = 0
    /\ nWrite = 0
    /\ lastPred = "none"
    /\ lastRead = NoRead
    /\ lastWrite = NoWrite
    /\ lastOp = "none"
    /\ ref = [pc |-> pc, pos |-> pos, buf |-> buf, len |-> len,
              writer |-> writer, result |-> result]
    /\ PatchIdle

\* io.rs:59-64 with reader an IterReader: reader.read(&mut buf[..]) is
\* IterReader::read with the whole buffer, which never fails.
ReadIter ==
    /\ pc = "read"
    /\ LET it == IterRead(items, iterPos, curr, DEFAULT_BUF_SIZE)
           r == [tag |-> "Ok", n |-> it.n, data |-> it.data, kind |-> "-", by |-> "-"]
       IN  /\ iterPos' = it.iterPos
           /\ curr' = it.curr
           /\ out' = out \o it.data
           /\ last' = [cap |-> DEFAULT_BUF_SIZE, data |-> it.data]
           /\ eof' = (eof \/ it.n = 0)
           /\ pc' = MatchRead(r).pc
           /\ result' = MatchRead(r).result
           /\ len' = MatchRead(r).len
           /\ pos' = pos + r.n
           /\ buf' = r.data \o Drop(buf, r.n)
           /\ lastRead' = [tag |-> r.tag, n |-> r.n, kind |-> r.kind, by |-> r.by]
           /\ ref' = RefAfterRead(r, r.data)
    /\ nReads' = nReads + 1
    /\ caps' = caps \cup {DEFAULT_BUF_SIZE}
    /\ nRead' = nRead + 1
    /\ lastOp' = "read"
    /\ UNCHANGED <<env, items, intrRun, writer, nPred, nWrite, lastPred, lastWrite>>
    /\ UNCHANGED patchVars

NextCompose == EvalPred \/ ReadIter \/ WriteSink

SpecCompose == InitCompose /\ [][NextCompose]_vars

\* ========================================================== patch_buffer

\* "syntax ="
SyntaxPrefix == <<"s", "y", "n", "t", "a", "x", " ", "=">>

\* "package grr;"
PackageLine == <<"p", "a", "c", "k", "a", "g", "e", " ", "g", "r", "r", ";">>

\* The lines of the inputs of the model: lines that start with "syntax =",
\* lines that nearly do, and others.
InputLines ==
    { <<"s", "y", "n", "t", "a", "x", " ", "=", " ", "\"", "2", "\"", ";">>,
      <<"s", "y", "n", "t", "a", "x", " ", "=">>,
      <<"s", "y", "n", "t", "a", "x", "=", "2">>,
      <<" ", "s", "y", "n", "t", "a", "x", " ", "=", " ", "2">>,
      <<"s", "y", "n", "t", "a", "x">>,
      <<"p", "a", "c", "k", "a", "g", "e", " ", "g", "r", "r", ";">>,
      <<"m", "e", "s", "s", "a", "g", "e", " ", "M", " ", "{">>,
      <<>> }

\* The line terminators of an input.
Terminators == {<<"\n">>, <<"\r", "\n">>}

\* The inputs of the model: at most MaxLines lines, each with its
\* terminator; the last line, if it is not empty, may have none.
Inputs ==
    UNION {{src \in [1..k -> [line : InputLines, term : Terminators \cup {<<>>}]] :
              \A i \in 1..k : src[i].term = <<>> => (i = k /\ src[i].line # <<>>)} :
           k \in 0..MaxLines}

\* The text of an input.
RECURSIVE TextOf(_)
TextOf(src) ==
    IF src = <<>> THEN <<>>
    ELSE Head(src).line \o Head(src).term \o TextOf(Tail(src))

\* A line without the "\r" that ended it, if one did.
StripCr(line) ==
    IF line # <<>> /\ line[Len(line)] = "\r" THEN SubSeq(line, 1, Len(line) - 1)
    ELSE line

\* str::lines, called as buffer.lines(): the text is split at "\n", a "\r"
\* before the "\n" belongs to the terminator, and what follows the last "\n"
\* is a line unless it is empty.  acc is the line being collected.
RECURSIVE SplitLines(_, _)
SplitLines(text, acc) ==
    IF text = <<>> THEN (IF acc = <<>> THEN <<>> ELSE <<acc>>)
    ELSE IF Head(text) = "\n" THEN <<StripCr(acc)>> \o SplitLines(Tail(text), <<>>)
    ELSE SplitLines(Tail(text), Append(acc, Head(text)))

Lines(text) == SplitLines(text, <<>>)

\* The line has the given text somewhere in it.
Contains(line, prefix) ==
    \E k \in 0..Len(line) :
        /\ k + Len(prefix) <= Len(line)
        /\ SubSeq(line, k + 1, k + Len(prefix)) = prefix

\* line.starts_with(prefix)
StartsWith(line, prefix) ==
    /\ Len(line) >= Len(prefix)
    /\ SubSeq(line, 1, Len(prefix)) = prefix

\* writeln!(output, "{}", line)
Writeln(o, line) == o \o line \o <<"\n">>

\* A variant of PatchedLine that writes the package line before the line.
PatchedLine_PackageFirst(o, line) ==
    IF StartsWith(line, SyntaxPrefix)
    THEN Writeln(Writeln(o, PackageLine), line)
    ELSE Writeln(o, line)

\* The body of the loop of patch_buffer, when no write fails: the output
\* after the output o.
PatchedLine(o, line) ==
    IF StartsWith(line, SyntaxPrefix)
    THEN Writeln(Writeln(o, line), PackageLine)
    ELSE Writeln(o, line)

\* The state on entry to patch_buffer, for every input of the model.
InitPatch ==
    /\ psrc \in Inputs
    /\ pfaulty \in {"none", "read", "write"}
    /\ ppc = "read"
    /\ plines = <<>>
    /\ pidx = 0
    /\ poutput = <<>>
    /\ presult = Running
    /\ CopyIdle
    /\ ReaderIdle

\* build.rs:92-93: input.read_to_string(&mut buffer)?
PatchRead ==
    /\ ppc = "read"
    /\ \/ /\ plines' = Lines(TextOf(psrc))
          /\ ppc' = "loop"
          /\ presult' = Running
       \/ /\ pfaulty = "read"
          /\ plines' = plines
          /\ ppc' = "done"
          /\ presult' = Err("Other", "read")
    /\ UNCHANGED <<psrc, pfaulty, pidx, poutput>>
    /\ UNCHANGED <<copyVars, readerVars>>

\* build.rs:95-100: one iteration of the loop.  A writeln! that fails ends
\* the call with its error: the first before anything of the line is
\* written, the second after the line has been written.
PatchLine ==
    /\ ppc = "loop"
    /\ pidx < Len(plines)
    /\ \/ /\ poutput' = PatchedLine(poutput, plines[pidx + 1])
          /\ pidx' = pidx + 1
          /\ ppc' = "loop"
          /\ presult' = Running
       \/ /\ pfaulty = "write"
          /\ poutput' = poutput
          /\ pidx' = pidx
          /\ ppc' = "done"
          /\ presult' = Err("Other", "write")
       \/ /\ pfaulty = "write"
          /\ StartsWith(plines[pidx + 1], SyntaxPrefix)
          /\ poutput' = Writeln(poutput, plines[pidx + 1])
          /\ pidx' = pidx
          /\ ppc' = "done"
          /\ presult' = Err("Other", "write")
    /\ UNCHANGED <<psrc, pfaulty, plines>>
    /\ UNCHANGED <<copyVars, readerVars>>

\* build.rs:102: Ok(())
PatchReturn ==
    /\ ppc = "loop"
    /\ pidx = Len(plines)
    /\ ppc' = "done"
    /\ presult' = Ok
    /\ UNCHANGED <<psrc, pfaulty, plines, pidx, poutput>>
    /\ UNCHANGED <<copyVars, readerVars>>

NextPatch == PatchRead \/ PatchLine \/ PatchReturn

SpecPatch == InitPatch /\ [][NextPatch]_vars

\* ================================================= properties of copy_until

Returned == pc = "done" /\ nPred > 0

\* C1: with a finite reader that never fails, a writer that never fails and a
\* predicate that is always false, copy_until returns Ok(()) and the writer
\* then holds exactly the bytes of the reader, in order: none missing, none
\* twice.  (Inputs range from empty to longer than the buffer.)
C1_CopiesWholeInput ==
    (/\ ~infinite /\ srcMode = "clean" /\ ~sinkFaulty /\ predKind = "false"
     /\ Returned)
    => (result = Ok /\ writer = input)

\* An input longer than the buffer has been copied in several rounds.
C1_Witness ==
    /\ ~infinite /\ srcMode = "clean" /\ ~sinkFaulty /\ predKind = "false"
    /\ Returned
    /\ Len(input) > DEFAULT_BUF_SIZE
    /\ nWrite >= 2
    /\ writer = input

\* C2: when the first evaluation of the predicate gives true, copy_until has
\* returned Ok(()) without a read and without a write, and the writer is as
\* it was (empty), whatever the reader holds.
C2_TrueAtFirstEvaluation ==
    (nPred = 1 /\ lastPred = "true")
    => (/\ pc = "done" /\ result = Ok
        /\ nRead = 0 /\ nWrite = 0 /\ pos = 0
        /\ writer = <<>>)

\* The predicate was true at once, over a reader that holds bytes.
C2_Witness ==
    /\ nPred = 1 /\ lastPred = "true"
    /\ (infinite \/ Len(input) > 0)
    /\ pc = "done" /\ result = Ok

\* C3: with an infinite reader that never fails and the predicate
\* "writer.len() > limit", when copy_until returns Ok(()) the writer holds
\* more than limit and at most limit + DEFAULT_BUF_SIZE bytes, whatever the
\* sizes of the reads.
C3_StopsWithinOneBuffer ==
    (/\ infinite /\ srcMode = "clean" /\ predKind = "lenGt"
     /\ Returned /\ result = Ok)
    => (limit < Len(writer) /\ Len(writer) <= limit + DEFAULT_BUF_SIZE)

\* The copy stopped at the far end of the range, after several rounds.
C3_Witness ==
    /\ infinite /\ srcMode = "clean" /\ predKind = "lenGt"
    /\ Returned /\ result = Ok
    /\ limit > 0
    /\ nWrite >= 2
    /\ Len(writer) = limit + DEFAULT_BUF_SIZE

\* C4: with an infinite reader whose reads deliver at least one byte or
\* report Interrupted (at most MaxIntr times in a row), a writer that never
\* fails and the predicate "writer.len() > limit", copy_until eventually
\* returns Ok(()).
C4_Terminates ==
    (/\ infinite /\ predKind = "lenGt" /\ srcMode \in {"clean", "intr"}
     /\ ~sinkFaulty)
    ~> (pc = "done" /\ result = Ok)

\* The copy has returned after interrupted reads and several rounds.
C4_Witness ==
    /\ infinite /\ predKind = "lenGt" /\ srcMode = "intr" /\ ~sinkFaulty
    /\ pc = "done" /\ result = Ok
    /\ nWrite >= 2
    /\ nRead >= nWrite + 2

\* ================================================= properties of IterReader

\* The unread bytes of the current chunk.
Unread(cur) == IF cur = <<>> THEN 0 ELSE Len(cur[1])

\* The bytes the reader has still to deliver: those of the current chunk and
\* of the chunks the iterator has not yielded yet.
Remaining(its, ipos, cur) == Unread(cur) + SumLen(SubSeq(its, ipos + 1, Len(its)))

\* C5, as claimed: the chunks "fo", "oba", "r" read through a buffer of 2
\* bytes give the reads "fo", "ob", "ar" and then a read of 0 bytes.
C5_Original ==
    (items = FooBar /\ caps = {2})
    => /\ nReads = 1 => last.data = <<102, 111>>
       /\ nReads = 2 => last.data = <<111, 98>>
       /\ nReads = 3 => last.data = <<97, 114>>
       /\ nReads = 4 => last.data = <<>>

\* C5, amended: the chunks "fo", "oba", "r" read through a buffer of 2 bytes
\* give the reads "fo", "ob", "a", "r" and then a read of 0 bytes; the bytes
\* read are "foobar" in all.
C5_FooBarReads ==
    (items = FooBar /\ caps = {2})
    => /\ nReads = 1 => last.data = <<102, 111>>
       /\ nReads = 2 => last.data = <<111, 98>>
       /\ nReads = 3 => last.data = <<97>>
       /\ nReads = 4 => last.data = <<114>>
       /\ nReads = 5 => (last.data = <<>> /\ out = <<102, 111, 111, 98, 97, 114>>)

\* "fo", "oba", "r" has been read to its end through a buffer of 2 bytes.
C5_Witness ==
    /\ items = FooBar /\ caps = {2}
    /\ nReads = 5
    /\ eof
    /\ last.data = <<>>

\* C6: as long as every read is given a buffer of capacity >= 1, the bytes
\* returned so far are, in order, the first bytes of the concatenation of
\* the chunks, and once a read has returned 0 they are all of it.
C6_ReadsConcatenateChunks ==
    (0 \notin caps)
    => /\ out = Take(Flatten(items), Len(out))
       /\ eof => out = Flatten(items)

\* Three chunks, one of them empty, have been read to the end with buffers
\* of different capacities.
C6_Witness ==
    /\ 0 \notin caps /\ Cardinality(caps) >= 2
    /\ Len(items) = MaxChunks
    /\ \E i \in 1..Len(items) : items[i] = <<>>
    /\ Len(Flatten(items)) >= 3
    /\ eof
    /\ out = Flatten(items)

\* C7: a read with a buffer of capacity >= 1 returns 0 exactly when the
\* reader has no byte left to deliver (the current chunk has no unread byte
\* and the iterator has nothing to yield but empty chunks, which the call
\* skips); when it returns 0 no chunk is current and the iterator is
\* exhausted; and once a read has returned 0 every later read returns 0.
C7_ZeroOnlyAtEndOfStream ==
    [][(nReads' = nReads + 1 /\ last'.cap >= 1)
       => /\ (Len(last'.data) = 0) <=> (Remaining(items, iterPos, curr) = 0)
          /\ (Len(last'.data) = 0) => (curr' = <<>> /\ iterPos' = Len(items))
          /\ eof => Len(last'.data) = 0]_vars

\* The chunks "", "ab" (an empty chunk, then two bytes): both bytes have been
\* delivered, and two reads have returned 0 after them.
C7_Witness ==
    /\ Len(items) = 2 /\ items[1] = <<>> /\ Len(items[2]) = 2
    /\ 0 \notin caps
    /\ out = items[2]
    /\ eof
    /\ nReads >= 3
    /\ last.data = <<>>

\* ================================== properties of copy_until: errors, retry

\* The last read failed with an error other than Interrupted.
ReadFailed == lastRead.tag = "Err" /\ lastRead.kind # "Interrupted"

\* The last write failed.
WriteFailed == lastWrite.tag = "Err"

\* C8: when a read fails with an error other than Interrupted, copy_until
\* returns that error, and from then on there is no read, no write and no
\* evaluation of the predicate, and the writer keeps what it holds.
C8_ReadErrorPropagated ==
    /\ [](ReadFailed => (pc = "done" /\ result = Err(lastRead.kind, "read")))
    /\ [][ReadFailed => UNCHANGED <<nPred, nRead, nWrite, writer, pos, result>>]_vars

\* A read has failed after a round that copied bytes, and copy_until has
\* returned its error.
C8_Witness ==
    /\ ReadFailed /\ lastRead.kind = "BrokenPipe"
    /\ pc = "done" /\ result = Err("BrokenPipe", "read")
    /\ nWrite >= 1 /\ Len(writer) > 0
    /\ nRead = nWrite + 1

\* C9: copy_until never returns the Interrupted error of a read.  A read
\* that reports Interrupted gives nothing to the writer and sends the loop
\* back to the predicate; every read, a retry included, comes directly
\* after its own evaluation of the predicate, which gave false; so when the
\* predicate gives true after an interrupted read, copy_until returns
\* without another read.
C9_InterruptedReadRetried ==
    /\ [](result # Err("Interrupted", "read"))
    /\ [][(nRead' = nRead + 1 /\ lastRead'.tag = "Err" /\ lastRead'.kind = "Interrupted")
          => (/\ pc' = "pred" /\ result' = Running
              /\ writer' = writer /\ nWrite' = nWrite /\ pos' = pos)]_vars
    /\ [][(nRead' = nRead + 1) => (nPred = nRead + 1 /\ lastPred = "false")]_vars
    /\ [][(lastRead.tag = "Err" /\ lastRead.kind = "Interrupted"
           /\ nPred' = nPred + 1 /\ lastPred' = "true")
          => (pc' = "done" /\ result' = Ok /\ nRead' = nRead)]_vars

\* After an interrupted read the predicate was evaluated again, gave true,
\* and copy_until returned Ok(()) without another read.
C9_Witness ==
    /\ lastRead.tag = "Err" /\ lastRead.kind = "Interrupted"
    /\ lastPred = "true"
    /\ pc = "done" /\ result = Ok
    /\ nPred = nRead + 1
    /\ nRead >= 2

\* C10: when write_all fails, copy_until returns that error, whatever its
\* kind (Interrupted included), and from then on there is no read, no write
\* (so no retry, and no second delivery of the bytes of that round) and no
\* evaluation of the predicate.
C10_WriteErrorPropagated ==
    /\ [](WriteFailed => (pc = "done" /\ result = Err(lastWrite.kind, "write")))
    /\ [][WriteFailed => UNCHANGED <<nPred, nRead, nWrite, writer, pos, result>>]_vars

\* A write has failed with Interrupted in the second round, after taking
\* part of the bytes, and copy_until has returned that error.
C10_Witness ==
    /\ WriteFailed /\ lastWrite.kind = "Interrupted"
    /\ pc = "done" /\ result = Err("Interrupted", "write")
    /\ nWrite = 2
    /\ lastWrite.taken > 0

\* ============================ properties of copy_until: the writer, ordering

\* The first n bytes of the stream the reader delivers.
Delivered(n) == IF infinite THEN [i \in 1..n |-> 66] ELSE Take(input, n)

\* The number of bytes of the rounds whose read and write both completed:
\* all the bytes read, less those of a round whose write is still to come or
\* has failed.
CompletedBytes == IF pc = "write" \/ WriteFailed THEN pos - len ELSE pos

\* C11, as claimed: at every point the writer holds exactly the bytes of the
\* rounds whose read and write both completed, also after an error.
C11_Original == writer = Delivered(CompletedBytes)

\* C11, amended: at every point the writer holds the bytes of the rounds
\* whose read and write both completed, followed - only after a failed
\* write_all - by the part of the failed round that the writer took before
\* it failed, which is less than the round; so the writer always holds a
\* prefix of the bytes the reader has delivered, and an error leaves what
\* was written in place.
C11_WriterIsPrefix ==
    /\ WriteFailed => lastWrite.taken < len
    /\ writer = Delivered(CompletedBytes + IF WriteFailed THEN lastWrite.taken ELSE 0)
    /\ Len(writer) <= pos
    /\ writer = Take(Delivered(pos), Len(writer))

\* A write has failed in the second round after taking a part of it; the
\* writer holds the first round and that part.
C11_Witness ==
    /\ ~infinite
    /\ WriteFailed /\ pc = "done"
    /\ nWrite = 2
    /\ lastWrite.taken > 0
    /\ Len(writer) > CompletedBytes
    /\ CompletedBytes > 0

\* C13: every read comes directly after an evaluation of the predicate that
\* gave false; once an evaluation has given true copy_until has returned
\* Ok(()) and nothing is read or written any more; and the predicate is
\* never evaluated between a read that gave bytes and their write.
C13_PredicateBetweenRounds ==
    /\ [][(nRead' = nRead + 1) => (lastOp = "pred" /\ lastPred = "false")]_vars
    /\ [](lastPred = "true" => (pc = "done" /\ result = Ok))
    /\ [][lastPred = "true" => UNCHANGED <<nRead, nWrite, writer, pos>>]_vars
    /\ [][(lastOp = "read" /\ lastRead.tag = "Ok" /\ lastRead.n > 0)
          => (nWrite' = nWrite + 1 /\ nPred' = nPred)]_vars
    /\ [][(nWrite' = nWrite + 1) => (lastOp = "read" /\ lastRead.n > 0)]_vars

\* After two rounds the predicate gave true and copy_until returned Ok(()).
C13_Witness ==
    /\ predKind = "any"
    /\ lastPred = "true" /\ lastOp = "pred"
    /\ pc = "done" /\ result = Ok
    /\ nWrite = 2 /\ nRead = 2 /\ nPred = 3
    /\ Len(writer) < Len(input)

\* ====================================== properties of IterReader: the cursor

\* A call of read has just returned.
ReadStep == nReads' = nReads + 1

\* C12, as claimed: after every read the cursor is empty or refers to a
\* chunk with at least one unread byte.
C12_Original == curr = <<>> \/ Len(curr[1]) >= 1

\* C12, amended: after every read the cursor is empty or holds the unread
\* rest of the chunk the iterator yielded last, of which at least one byte
\* has been read; that rest may be empty: a read that takes the last byte of
\* a chunk leaves the exhausted chunk in the cursor, and the cursor is empty
\* exactly after a read that returned 0.
C12_CursorHoldsRestOfLastChunk ==
    /\ [](curr # <<>> =>
            /\ iterPos >= 1
            /\ \E k \in 1..Len(items[iterPos]) : curr[1] = Drop(items[iterPos], k))
    /\ [][ReadStep => ((Len(last'.data) = 0) <=> (curr' = <<>>))]_vars

\* A read has taken the last byte of a chunk and the cursor still holds the
\* exhausted chunk, while the iterator has more to yield.
C12_Witness ==
    /\ curr = <<<<>>>>
    /\ Len(last.data) > 0
    /\ iterPos < Len(items)

\* The index of the first chunk after ipos that is not empty, or 0.
RECURSIVE FirstNonEmpty(_, _)
FirstNonEmpty(its, ipos) ==
    IF ipos >= Len(its) THEN 0
    ELSE IF its[ipos + 1] # <<>> THEN ipos + 1
    ELSE FirstNonEmpty(its, ipos + 1)

\* The unread bytes of the chunk a read with a non-empty buffer takes its
\* bytes from: the rest of the current chunk, or else the first chunk to
\* come that is not empty.
ActiveUnread ==
    IF Unread(curr) > 0 THEN curr[1]
    ELSE IF FirstNonEmpty(items, iterPos) > 0
    THEN items[FirstNonEmpty(items, iterPos)]
    ELSE <<>>

\* C14: a read that returns n > 0 returns bytes of one chunk only: n is the
\* smaller of the unread bytes of that chunk and the capacity of the buffer,
\* and the bytes are the next n unread bytes of that chunk, also when the
\* buffer has room for bytes of the next chunk.
C14_OneChunkPerRead ==
    [][(ReadStep /\ Len(last'.data) > 0)
       => /\ Len(last'.data) = Min(Len(ActiveUnread), last'.cap)
          /\ last'.data = SubSeq(ActiveUnread, 1, Len(last'.data))
          /\ curr' = <<Drop(ActiveUnread, Len(last'.data))>>]_vars

\* A read has returned fewer bytes than its buffer takes although the next
\* chunk holds bytes.
C14_Witness ==
    /\ Len(last.data) > 0
    /\ Len(last.data) < last.cap
    /\ curr = <<<<>>>>
    /\ iterPos < Len(items)
    /\ items[iterPos + 1] # <<>>

\* C15: the iterator is advanced only when the cursor has no unread byte,
\* past empty chunks only, and never ahead of need: when a read returns
\* n > 0 the chunk yielded last is the one the bytes came from and the
\* cursor holds the rest of that chunk; the reader holds at most one chunk.
C15_NoPrefetch ==
    [][ReadStep
       => /\ Len(curr') <= 1
          /\ iterPos' >= iterPos
          /\ (last'.cap >= 1 /\ iterPos' > iterPos) =>
                /\ Unread(curr) = 0
                /\ \A i \in (iterPos + 1)..(iterPos' - 1) : items[i] = <<>>
          /\ Len(last'.data) > 0 =>
                /\ iterPos' >= 1
                /\ Len(last'.data) <= Len(items[iterPos'])
                /\ \E off \in 0..(Len(items[iterPos']) - Len(last'.data)) :
                      /\ last'.data = SubSeq(items[iterPos'], off + 1,
                                             off + Len(last'.data))
                      /\ curr' = <<Drop(items[iterPos'], off + Len(last'.data))>>]_vars

\* The second chunk has been read to its end, and the third, which holds
\* bytes, has not been asked for yet.
C15_Witness ==
    /\ iterPos = 2 /\ Len(items) = 3
    /\ items[3] # <<>>
    /\ Len(last.data) > 0
    /\ curr = <<<<>>>>

\* C16: whatever the capacities of the buffers, capacity 0 included, no
\* byte of a chunk is dropped unread: the bytes returned so far and the bytes
\* the reader has still to deliver are together all the bytes of the chunks
\* (so a read with a buffer of capacity 0, which returns 0, takes nothing
\* away), and by the time a read with a non-empty buffer returns 0 the bytes
\* returned are the concatenation of the chunks.
C16_ZeroCapacityReadLosesNothing ==
    /\ Len(out) + Remaining(items, iterPos, curr) = SumLen(items)
    /\ eof => out = Flatten(items)

\* ================================================ properties of composition

\* C17: copy_until over an IterReader, with an empty writer that does not
\* fail and a predicate that is always false, returns Ok(()) with the writer
\* holding the concatenation of the chunks, wherever the ends of the chunks
\* fall in the buffer and whether or not some chunks are empty.
C17_CopyOverIterReader ==
    (predKind = "false" /\ ~sinkFaulty /\ pc = "done")
    => (result = Ok /\ writer = Flatten(items))

\* Chunks longer than the buffer and an empty chunk have been copied.
C17_Witness ==
    /\ predKind = "false" /\ ~sinkFaulty /\ pc = "done"
    /\ result = Ok
    /\ \E i \in 1..Len(items) : items[i] = <<>>
    /\ \E i \in 1..Len(items) : Len(items[i]) > DEFAULT_BUF_SIZE
    /\ nWrite >= 3
    /\ writer = Flatten(items)

\* ================================================ properties of patch_buffer

\* Line i of the input starts with "syntax =".
Marked(i) == StartsWith(psrc[i].line, SyntaxPrefix)

\* The place of line i of the input among the lines of the output: one
\* further for every line before it that starts with "syntax =".
PlaceOf(i) == i + Cardinality({j \in 1..(i - 1) : Marked(j)})

\* The lines the output is to consist of: the lines of the input at their
\* places, and "package grr;" at every other place.
WantedLines ==
    [p \in 1..(Len(psrc) + Cardinality({j \in 1..Len(psrc) : Marked(j)})) |->
        IF \E i \in 1..Len(psrc) : PlaceOf(i) = p
        THEN psrc[CHOOSE i \in 1..Len(psrc) : PlaceOf(i) = p].line
        ELSE PackageLine]

\* The text made of the given lines, each followed by "\n".
RECURSIVE Terminated(_)
Terminated(ls) ==
    IF ls = <<>> THEN <<>> ELSE Head(ls) \o <<"\n">> \o Terminated(Tail(ls))

\* C19: when patch_buffer returns Ok(()), the output consists of the lines
\* of the input, unchanged and in order, each followed by "\n", with one
\* line "package grr;" directly after each line that starts with "syntax ="
\* and nowhere else; without such a line the output is the lines of the
\* input and nothing more.
C19_PackageAfterSyntax ==
    (ppc = "done" /\ presult = Ok)
    => /\ poutput = Terminated(WantedLines)
       /\ (\A i \in 1..Len(psrc) : ~Marked(i))
             => poutput = Terminated([i \in 1..Len(psrc) |-> psrc[i].line])

\* An input of two lines has been patched: the first starts with "syntax ="
\* and ends with "\r\n", the second has "syntax =" after a space and no
\* terminator.
C19_Witness ==
    /\ ppc = "done" /\ presult = Ok
    /\ Len(psrc) = 2
    /\ Marked(1) /\ psrc[1].term = <<"\r", "\n">>
    /\ Contains(psrc[2].line, SyntaxPrefix) /\ ~Marked(2)
    /\ psrc[2].term = <<>>
    /\ Len(Lines(poutput)) = 3

\* ===================================== interrupted reads and the outcome

\* An interrupted read is the last thing the call has got from its reader.
Interrupted ==
    lastOp = "read" /\ lastRead.tag = "Err" /\ lastRead.kind = "Interrupted"

\* C18: with a predicate of the sink's content, the call and the call that
\* is given the same results without the interrupted reads have the same
\* result and the same sink content, have read as far, and are at the same
\* place but for an interrupted read being retried; two calls that differ in
\* their interrupted reads alone then end alike.  Every run of interrupted
\* reads, being finite, ends with another result of the read or with the
\* return of the call.
C18_InterruptedReadsInvisible ==
    /\ [](predKind # "any"
          => /\ ref.writer = writer
             /\ ref.result = result
             /\ ref.pos = pos
             /\ ref.pc = pc \/ (Detour /\ ref.pc = "read"))
    /\ Interrupted ~> (pc = "done" \/ (lastOp = "read" /\ ~Interrupted))

\* A call with a predicate of the sink's content has copied more than a
\* buffer and returned Ok(()) at the end of the stream, after reads that were
\* interrupted.
C18_Witness ==
    /\ predKind = "lenGt" /\ ~infinite
    /\ pc = "done" /\ result = Ok
    /\ lastOp = "read" /\ lastRead.tag = "Ok" /\ lastRead.n = 0
    /\ nRead > nWrite + 2
    /\ writer = input /\ Len(input) > DEFAULT_BUF_SIZE
    /\ ref.pc = "done" /\ ref.writer = writer

====
